---- MODULE Spec2Model ----
(***************************************************************************)
(* A model of in3120-2024: StringFinder.scan (in3120/stringfinder.py), the *)
(* trie-walk dictionary matcher, together with the collaborators it calls  *)
(* (tokenizer, normalizer, trie).                                          *)
(*                                                                         *)
(* Text is a sequence of one-character strings.  Buffer offsets are the    *)
(* 0-based, half-open offsets of Python slicing.                           *)
(***************************************************************************)
EXTENDS Integers, Sequences, FiniteSets, TLC

\* ------------------------------------------------------------------ bounds
\* Longest buffer over the full alphabet.
MaxBufLen == 5
\* Longest buffer over the repetitive alphabet {"a", " "}.
MaxRepeatLen == 7
\* Largest number of entries in a dictionary.
MaxEntries == 3

\* ------------------------------------------------------------------- text
Chars == {"a", "b", "A", " "}
RepeatChars == {"a", " "}

\* Python's None.
None == <<"None">>

\* str.casefold on one character.
Fold(c) == IF c = "A" THEN "a" ELSE c

IsSpace(c) == c = " "

\* All sequences over S of length at most n.
SeqUpTo(S, n) == UNION {[1..k -> S] : k \in 0..n}

\* ------------------------------------------------------------ normalizer
\* Normalizer.normalize of the test suite's SimpleNormalizer: case folding.
Normalize(text) == [i \in 1..Len(text) |-> Fold(text[i])]

\* ------------------------------------------------------------- tokenizer
\* Offsets (0-based) at which a token starts: a non-space character that is
\* the first of the buffer or follows a space.
TokenStarts(buf) ==
  {i \in 0..(Len(buf) - 1) :
     /\ ~IsSpace(buf[i + 1])
     /\ (i = 0 \/ IsSpace(buf[i]))}

\* End offset (exclusive) of the token that starts at offset i.
TokenEnd(buf, i) ==
  CHOOSE j \in (i + 1)..Len(buf) :
    /\ \A k \in (i + 1)..j : ~IsSpace(buf[k])
    /\ (j = Len(buf) \/ IsSpace(buf[j + 1]))

RECURSIVE TokensFrom(_, _)
TokensFrom(buf, starts) ==
  IF starts = {} THEN <<>>
  ELSE LET i == CHOOSE x \in starts : \A y \in starts : x <= y
           j == TokenEnd(buf, i)
       IN <<[text |-> SubSeq(buf, i + 1, j), start |-> i, end |-> j]>>
            \o TokensFrom(buf, starts \ {i})

\* Tokenizer.tokens(buffer): the tokens in buffer order, each with its span.
Tokens(buf) == TokensFrom(buf, TokenStarts(buf))

\* ------------------------------------------------------------------ trie
RECURSIVE JoinSpace(_)
\* " ".join(words)
JoinSpace(words) ==
  IF words = <<>> THEN <<>>
  ELSE IF Len(words) = 1 THEN words[1]
  ELSE words[1] \o <<" ">> \o JoinSpace(Tail(words))

\* The normalized tokens of a text, in order.
NormalizedTokens(text) ==
  LET toks == Tokens(text)
  IN [i \in 1..Len(toks) |-> Normalize(toks[i].text)]

\* The string Trie.from_strings stores for a dictionary entry: its tokens,
\* each normalized, joined by single spaces.
TrieString(entry) == JoinSpace(NormalizedTokens(entry))

\* A trie is the function from the strings stored in it to their meta
\* values; a node is the path of characters leading to it from the root.
Root == <<>>

\* Trie.from_strings2 over (entry, entry) pairs: every entry is stored under
\* its normalized string with the entry itself as meta.
BuildTrie(entries) ==
  [s \in {TrieString(e) : e \in entries} |->
     CHOOSE e \in entries : TrieString(e) = s]

IsPrefix(p, s) == Len(p) <= Len(s) /\ SubSeq(s, 1, Len(p)) = p

\* Trie.transitions(): the characters labelling the node's outgoing edges.
Transitions(t, node) ==
  {c \in Chars : \E s \in DOMAIN t : IsPrefix(Append(node, c), s)}

\* Trie.is_final()
IsFinal(t, node) == node \in DOMAIN t

\* Trie.get_meta(): the value stored with the entry that ends at the node.
GetMeta(t, node) == IF node \in DOMAIN t THEN t[node] ELSE None

RECURSIVE Consume(_, _, _)
\* Trie.consume(prefix): walk the characters of prefix from node; None when
\* an edge is missing.
Consume(t, node, prefix) ==
  IF prefix = <<>> THEN node
  ELSE IF Head(prefix) \in Transitions(t, node)
       THEN Consume(t, Append(node, Head(prefix)), Tail(prefix))
       ELSE None

\* ----------------------------------------------------------------- inputs
\* Dictionary entries as handed to the trie builder (not yet normalized).
EntryPool ==
  { <<"a">>,
    <<"A", " ", "b">>,
    <<"a", "b">>,
    <<"a", " ", "a">>,
    <<"a", " ", "a", " ", "a">>,
    <<"a", " ", "a", " ", "b">> }

Dictionaries == {d \in SUBSET EntryPool : Cardinality(d) <= MaxEntries}

Buffers == SeqUpTo(Chars, MaxBufLen) \cup SeqUpTo(RepeatChars, MaxRepeatLen)

\* ------------------------------------------------------- StringFinder.scan
VARIABLES
  trie,             \* self.__trie
  buffer,           \* the argument of scan
  tokens,           \* the tokenizer's output (line 81)
  tokIdx,           \* number of tokens the outer loop has taken
  token,            \* the normalized current token (line 87)
  start,            \* start offset of the current token
  end,              \* end offset of the current token
  live_states,      \* the list the inner loop iterates over
  new_live_states,  \* the list the inner loop builds
  state_index,      \* index of the inner loop, counting down
  local,            \* next_state, state_start, consumed across a yield
  pc,               \* where the generator stands
  out,              \* the records handed to the caller so far, in order
  consumeCalls      \* number of calls of Trie.consume made by this scan

vars == <<trie, buffer, tokens, tokIdx, token, start, end, live_states,
          new_live_states, state_index, local, pc, out, consumeCalls>>

\* Around the scan: a second generator of the same StringFinder, and what a
\* collaborator has raised.
VARIABLES
  parked,           \* the frame of the generator that is not running
  scans,            \* the calls of scan made on the StringFinder so far
  error             \* the exception a collaborator raised into the scan

\* PostingsMerger: one call of intersection, union or difference.
VARIABLES
  op,               \* the method called
  listA,            \* the postings the first argument delivers
  listB,            \* the postings the second argument delivers
  iter1,            \* what iter1 has still to deliver
  iter2,            \* what iter2 has still to deliver
  a,                \* the local a
  b,                \* the local b
  merged,           \* the postings yielded so far
  mpc               \* position of the merge: "call", "loop", "done"

mergeVars == <<op, listA, listB, iter1, iter2, a, b, merged, mpc>>

\* InMemoryInvertedIndex: construction over a corpus, then lookups.
VARIABLES
  corpus,           \* self._corpus: the contents of the documents, in order
  docIdx,           \* documents doc_iterator has delivered to the loop
  dictionary,       \* self._dictionary: term -> term identifier
  posting_lists,    \* self._posting_lists
  asked,            \* the last lookup and what it returned
  ipc               \* position of the index: "build", "ready"

indexVars == <<corpus, docIdx, dictionary, posting_lists, asked, ipc>>

\* SuffixArray: construction over a corpus, then calls of evaluate.
VARIABLES
  documents,        \* self.__corpus: the contents of the documents, in order
  haystack,         \* self.__haystack
  suffixes,         \* self.__suffixes
  options,          \* the options evaluate was called with
  normalized_query, \* the local normalized_query of evaluate
  hit_count,        \* the local hit_count of evaluate
  cursor,           \* index into self.__suffixes of the loop of line 123
  matches,          \* the Counter matches, in insertion order
  ranked,           \* matches.most_common(hit_count), what is left to yield
  yielded,          \* the results evaluate has yielded
  spc               \* position: "build", "ready", "scan", "yield", "done"

suffixVars == <<documents, haystack, suffixes, options, normalized_query,
                hit_count, cursor, matches, ranked, yielded, spc>>

\* AccessLoggedInvertedIndex around the InMemoryInvertedIndex.
VARIABLES
  accesses,         \* self._accesses
  iterators,        \* the AccessLoggedIterators handed out
  received,         \* (term, document_id) of the postings the pulls returned
  thrown            \* what the last pull raised

loggedVars == <<accesses, iterators, received, thrown>>

\* The variables of the other components.
elsewhere == <<mergeVars, indexVars, suffixVars, loggedVars>>

\* The variables the steps of a scan leave alone.
scanRest == <<parked, scans, error, elsewhere>>

allvars == <<vars, scanRest>>

\* No second generator.
NoFrame == [pc |-> "none"]

\* No exception.
NoError == "none"

\* The locals of the running generator (its frame).
Frame ==
  [buffer |-> buffer, tokens |-> tokens, tokIdx |-> tokIdx, token |-> token,
   start |-> start, end |-> end, live_states |-> live_states,
   new_live_states |-> new_live_states, state_index |-> state_index,
   local |-> local, pc |-> pc, out |-> out, consumeCalls |-> consumeCalls]

\* No merge is going on.
MergeIdle ==
  /\ op = "none"
  /\ listA = <<>>
  /\ listB = <<>>
  /\ iter1 = <<>>
  /\ iter2 = <<>>
  /\ a = <<>>
  /\ b = <<>>
  /\ merged = <<>>
  /\ mpc = "idle"

\* No suffix array is there.
SuffixIdle ==
  /\ documents = <<>>
  /\ haystack = <<>>
  /\ suffixes = <<>>
  /\ options = <<>>
  /\ normalized_query = <<>>
  /\ hit_count = 0
  /\ cursor = 0
  /\ matches = <<>>
  /\ ranked = <<>>
  /\ yielded = <<>>
  /\ spc = "idle"

\* No access log is there.
LoggedIdle ==
  /\ accesses = <<>>
  /\ iterators = <<>>
  /\ received = <<>>
  /\ thrown = "idle"

\* No lookup yet.
NoLookup == [method |-> "none"]

\* No index is there.
IndexIdle ==
  /\ corpus = <<>>
  /\ docIdx = 0
  /\ dictionary = <<>>
  /\ posting_lists = <<>>
  /\ asked = NoLookup
  /\ ipc = "idle"

NoLocal == [next_state |-> None, state_start |-> 0, consumed |-> <<>>]

\* __consume with the separating space left out of the consumed text.
ConsumeTokenNoSpace(t, state, tok, consumed) ==
  LET next_state == Consume(t, state, tok)
  IN IF next_state # None
     THEN [next_state |-> next_state, consumed |-> consumed \o tok]
     ELSE [next_state |-> Consume(t, state, <<" ">> \o tok),
           consumed |-> consumed \o tok]

\* __consume with the consumed text always joined by a space, whichever
\* transition was taken.
ConsumeTokenSpaceAlways(t, state, tok, consumed) ==
  LET next_state == Consume(t, state, tok)
  IN IF next_state # None
     THEN [next_state |-> next_state,
           consumed |-> IF consumed = <<>> THEN tok
                        ELSE consumed \o <<" ">> \o tok]
     ELSE [next_state |-> Consume(t, state, <<" ">> \o tok),
           consumed |-> consumed \o <<" ">> \o tok]

\* __consume (lines 67-78): the direct transition if there is one, else the
\* transition with a space put before the token.
ConsumeToken(t, state, tok, consumed) ==
  LET next_state == Consume(t, state, tok)
  IN IF next_state # None
     THEN [next_state |-> next_state, consumed |-> consumed \o tok]
     ELSE [next_state |-> Consume(t, state, <<" ">> \o tok),
           consumed |-> consumed \o <<" ">> \o tok]

\* Calls of Trie.consume one run of __consume makes.
ConsumeCount(t, state, tok) ==
  IF Consume(t, state, tok) # None THEN 1 ELSE 2

\* TokenStream with the whole buffer taken as one token when the tokenizer
\* finds none.
TokenStreamWholeBuffer(buf) ==
  IF Tokens(buf) = <<>>
  THEN <<[text |-> buf, start |-> 0, end |-> Len(buf)]>>
  ELSE Tokens(buf)

\* Line 81.
TokenStream(buf) == Tokens(buf)

\* Line 84.
InitialLiveStates == <<[state |-> Root, state_start |-> 0, consumed |-> <<>>]>>

\* StateStart without the rebirth of the root state at the current token.
StateStartNeverReset(consumed, state_start, tokStart) == state_start

\* Lines 101-102: a state that has consumed nothing is born at this token.
StateStart(consumed, state_start, tokStart) ==
  IF consumed = <<>> THEN tokStart ELSE state_start

\* Line 96: reversed(list(enumerate(live_states))) begins at the last index.
FirstIndex(states) == Len(states) - 1

\* Prune without the test of line 113 that spares index 0.
PruneAnyIndex(states, idx) ==
  IF Len(states) > idx
  THEN SubSeq(states, 1, idx) \o SubSeq(states, idx + 2, Len(states))
  ELSE states

\* Lines 113-115: new_live_states.pop(state_index), guarded.
Prune(states, idx) ==
  IF Len(states) > idx /\ idx # 0
  THEN SubSeq(states, 1, idx) \o SubSeq(states, idx + 2, Len(states))
  ELSE states

RECURSIVE SplitAcc(_, _, _)
SplitAcc(s, word, words) ==
  IF s = <<>> THEN (IF word = <<>> THEN words ELSE Append(words, word))
  ELSE IF IsSpace(Head(s))
       THEN SplitAcc(Tail(s), <<>>,
                     IF word = <<>> THEN words ELSE Append(words, word))
       ELSE SplitAcc(Tail(s), Append(word, Head(s)), words)

\* str.split(): the maximal runs of non-space characters.
Split(s) == SplitAcc(s, <<>>, <<>>)

\* MatchRecord with the end of the span computed from the length of the match.
MatchRecordEndFromMatch(t, buf, state_start, tokEnd, consumed, next_state) ==
  [surface |-> JoinSpace(Split(SubSeq(buf, state_start + 1, tokEnd))),
   span    |-> <<state_start, state_start + Len(consumed)>>,
   match   |-> consumed,
   meta    |-> GetMeta(t, next_state)]

\* MatchRecord with the surface form case-folded like the match.
MatchRecordFoldedSurface(t, buf, state_start, tokEnd, consumed, next_state) ==
  [surface |-> JoinSpace(Split(Normalize(SubSeq(buf, state_start + 1, tokEnd)))),
   span    |-> <<state_start, tokEnd>>,
   match   |-> consumed,
   meta    |-> GetMeta(t, next_state)]

\* Lines 120-132: the record that is yielded.
MatchRecord(t, buf, state_start, tokEnd, consumed, next_state) ==
  [surface |-> JoinSpace(Split(SubSeq(buf, state_start + 1, tokEnd))),
   span    |-> <<state_start, tokEnd>>,
   match   |-> consumed,
   meta    |-> GetMeta(t, next_state)]

\* DeadEnd without the test of line 136: every successor is kept.
DeadEndIgnored(t, next_state) == FALSE

\* Line 136: a final node without outgoing transitions is not kept.
DeadEnd(t, next_state) ==
  Cardinality(Transitions(t, next_state)) = 0 /\ IsFinal(t, next_state)

\* Lines 134-140.
Kept(t, states, next_state, state_start, consumed) ==
  IF DeadEnd(t, next_state) THEN states
  ELSE Append(states, [state |-> next_state, state_start |-> state_start,
                       consumed |-> consumed])

\* A StringFinder over a trie (lines 25-28) and one call of scan on a buffer:
\* one generator, no collaborator has failed.
Init ==
  /\ trie \in {BuildTrie(d) : d \in Dictionaries}
  /\ buffer \in Buffers
  /\ tokens = <<>>
  /\ tokIdx = 0
  /\ token = <<>>
  /\ start = 0
  /\ end = 0
  /\ live_states = <<>>
  /\ new_live_states = <<>>
  /\ state_index = 0
  /\ local = NoLocal
  /\ pc = "call"
  /\ out = <<>>
  /\ consumeCalls = 0
  /\ parked = NoFrame
  /\ scans = 1
  /\ error = NoError
  /\ MergeIdle
  /\ IndexIdle
  /\ SuffixIdle
  /\ LoggedIdle

\* Lines 81-84: the first pull enters the body.
Call ==
  /\ UNCHANGED scanRest
  /\ pc = "call"
  /\ tokens' = TokenStream(buffer)
  /\ live_states' = InitialLiveStates
  /\ pc' = "for_token"
  /\ UNCHANGED <<trie, buffer, tokIdx, token, start, end, new_live_states,
                 state_index, local, out, consumeCalls>>

\* Lines 86-93: take the next token, normalize it, copy the list.
NextToken ==
  /\ UNCHANGED scanRest
  /\ pc = "for_token"
  /\ tokIdx < Len(tokens)
  /\ LET tk == tokens[tokIdx + 1]
     IN /\ token' = Normalize(tk.text)
        /\ start' = tk.start
        /\ end' = tk.end
  /\ tokIdx' = tokIdx + 1
  /\ new_live_states' = live_states
  /\ state_index' = FirstIndex(live_states)
  /\ pc' = "for_state"
  /\ UNCHANGED <<trie, buffer, tokens, live_states, local, out, consumeCalls>>

\* Exhausted with the generator waiting for further tokens instead of
\* returning.
ExhaustedWaiting ==
  /\ pc = "for_token"
  /\ tokIdx >= Len(tokens)
  /\ UNCHANGED allvars

\* Line 86 with the tokens used up: the generator returns.
Exhausted ==
  /\ UNCHANGED scanRest
  /\ pc = "for_token"
  /\ tokIdx >= Len(tokens)
  /\ pc' = "done"
  /\ UNCHANGED <<trie, buffer, tokens, tokIdx, token, start, end, live_states,
                 new_live_states, state_index, local, out, consumeCalls>>

\* Advance with the record of a final node put with the results and the loop
\* going on without handing it over (a scan that collects instead of yielding).
AdvanceCollecting ==
  /\ UNCHANGED scanRest
  /\ pc = "for_state"
  /\ state_index >= 0
  /\ LET st == live_states[state_index + 1]
         state_start == StateStart(st.consumed, st.state_start, start)
         res == ConsumeToken(trie, st.state, token, st.consumed)
     IN /\ consumeCalls' = consumeCalls + ConsumeCount(trie, st.state, token)
        /\ IF res.next_state = None
           THEN /\ new_live_states' = Prune(new_live_states, state_index)
                /\ out' = out
           ELSE /\ new_live_states' = Kept(trie, new_live_states, res.next_state,
                                           state_start, res.consumed)
                /\ out' = IF IsFinal(trie, res.next_state)
                          THEN Append(out, MatchRecord(trie, buffer, state_start,
                                                       end, res.consumed,
                                                       res.next_state))
                          ELSE out
        /\ state_index' = state_index - 1
        /\ UNCHANGED <<local, pc>>
  /\ UNCHANGED <<trie, buffer, tokens, tokIdx, token, start, end, live_states>>

\* Lines 96-132 for the state at state_index: prune it, or advance it and,
\* at a final node, yield a record and suspend.
Advance ==
  /\ UNCHANGED scanRest
  /\ pc = "for_state"
  /\ state_index >= 0
  /\ LET st == live_states[state_index + 1]
         state_start == StateStart(st.consumed, st.state_start, start)
         res == ConsumeToken(trie, st.state, token, st.consumed)
     IN /\ consumeCalls' = consumeCalls + ConsumeCount(trie, st.state, token)
        /\ IF res.next_state = None
           THEN /\ new_live_states' = Prune(new_live_states, state_index)
                /\ state_index' = state_index - 1
                /\ UNCHANGED <<local, pc, out>>
           ELSE IF IsFinal(trie, res.next_state)
           THEN /\ out' = Append(out, MatchRecord(trie, buffer, state_start, end,
                                                  res.consumed, res.next_state))
                /\ local' = [next_state |-> res.next_state,
                             state_start |-> state_start,
                             consumed |-> res.consumed]
                /\ pc' = "yielded"
                /\ UNCHANGED <<new_live_states, state_index>>
           ELSE /\ new_live_states' = Kept(trie, new_live_states, res.next_state,
                                           state_start, res.consumed)
                /\ state_index' = state_index - 1
                /\ UNCHANGED <<local, pc, out>>
  /\ UNCHANGED <<trie, buffer, tokens, tokIdx, token, start, end, live_states>>

\* Lines 134-140 after the caller pulls again.
Resume ==
  /\ UNCHANGED scanRest
  /\ pc = "yielded"
  /\ new_live_states' = Kept(trie, new_live_states, local.next_state,
                             local.state_start, local.consumed)
  /\ state_index' = state_index - 1
  /\ local' = NoLocal
  /\ pc' = "for_state"
  /\ UNCHANGED <<trie, buffer, tokens, tokIdx, token, start, end, live_states,
                 out, consumeCalls>>

\* Line 143.
EndToken ==
  /\ UNCHANGED scanRest
  /\ pc = "for_state"
  /\ state_index < 0
  /\ live_states' = new_live_states
  /\ pc' = "for_token"
  /\ UNCHANGED <<trie, buffer, tokens, tokIdx, token, start, end,
                 new_live_states, state_index, local, out, consumeCalls>>

Next == Call \/ NextToken \/ Exhausted \/ Advance \/ Resume \/ EndToken

Spec == Init /\ [][Next]_allvars

\* ------------------------------------------------- vocabulary of the claims
\* The tokens of the scanned buffer, as the tokenizer gives them.
Toks == Tokens(buffer)

\* The normalized forms of tokens i..j of the buffer.
NormRun(i, j) == [k \in 1..(j - i + 1) |-> Normalize(Toks[i + k - 1].text)]

\* Tokens i..j of the buffer are, normalized and in order, the tokens of the
\* stored string s.
Occurs(i, j, s) == NormRun(i, j) = Split(s)

\* Some record has this span and this match.
Emitted(span, match) ==
  \E k \in 1..Len(out) : out[k].span = span /\ out[k].match = match

\* The scan has returned.
Done == pc = "done"

\* C1: when the scan has returned, every run of tokens that is an occurrence
\* of a stored entry has a record with the run's span and the entry as match.
C1_Complete ==
  Done =>
    \A s \in DOMAIN trie :
      \A i \in 1..Len(Toks) : \A j \in i..Len(Toks) :
        Occurs(i, j, s) => Emitted(<<Toks[i].start, Toks[j].end>>, s)

\* C2: every record's span runs from the start of a token to the end of a
\* token, its match is a stored entry, and the tokens in the span, none
\* skipped, are that entry's tokens.
C2_Sound ==
  \A k \in 1..Len(out) :
    \E i \in 1..Len(Toks) : \E j \in i..Len(Toks) :
      /\ out[k].span = <<Toks[i].start, Toks[j].end>>
      /\ out[k].match \in DOMAIN trie
      /\ Occurs(i, j, out[k].match)

\* C3: no two records of a scan have the same span and the same match.
C3_NoDuplicate ==
  \A k \in 1..Len(out) : \A l \in (k + 1)..Len(out) :
    ~(out[k].span = out[l].span /\ out[k].match = out[l].match)

\* C4: the records are emitted in non-decreasing order of span end.
C4_CompletionOrder ==
  \A k \in 1..Len(out) : \A l \in (k + 1)..Len(out) :
    out[k].span[2] <= out[l].span[2]

\* Two records were emitted that complete on different tokens.
C4_Witness ==
  \E k \in 1..Len(out) : \E l \in (k + 1)..Len(out) :
    out[k].span[2] < out[l].span[2]

\* C5: of two records that complete on the same token, the one with the
\* older origin (smaller span start) is emitted first.
C5_OldestFirst ==
  \A k \in 1..Len(out) : \A l \in (k + 1)..Len(out) :
    out[k].span[2] = out[l].span[2] => out[k].span[1] <= out[l].span[1]

\* The stored string e is a proper token-prefix of the stored string f.
TokenPrefix(e, f) ==
  /\ Len(Split(e)) < Len(Split(f))
  /\ SubSeq(Split(f), 1, Len(Split(e))) = Split(e)

\* The matches of the records, in emission order.
Matches == [k \in 1..Len(out) |-> out[k].match]

\* C6: when the scan has returned, every occurrence of an entry f that has a
\* stored token-prefix e has a record for e and a later record for f with
\* the same span start; and {"a", "a b"} over "a a b" gives a, a, a b.
C6_PrefixBothFire ==
  Done =>
    /\ \A e \in DOMAIN trie : \A f \in DOMAIN trie :
         TokenPrefix(e, f) =>
           \A i \in 1..Len(Toks) : \A j \in i..Len(Toks) :
             Occurs(i, j, f) =>
               \E k \in 1..Len(out) : \E l \in (k + 1)..Len(out) :
                 /\ out[k].match = e
                 /\ out[k].span = <<Toks[i].start, Toks[i + Len(Split(e)) - 1].end>>
                 /\ out[l].match = f
                 /\ out[l].span = <<Toks[i].start, Toks[j].end>>
    /\ (/\ DOMAIN trie = {<<"a">>, <<"a", " ", "b">>}
        /\ buffer = <<"a", " ", "a", " ", "b">>)
         => Matches = << <<"a">>, <<"a">>, <<"a", " ", "b">> >>

RECURSIVE CollapseFrom(_, _)
\* The characters of s from index k on, keeping every non-space character and,
\* of every run of spaces that lies between two non-space characters, the
\* last space.
CollapseFrom(s, k) ==
  IF k > Len(s) THEN <<>>
  ELSE LET keep ==
             \/ ~IsSpace(s[k])
             \/ /\ k < Len(s)
                /\ ~IsSpace(s[k + 1])
                /\ \E m \in 1..(k - 1) : ~IsSpace(s[m])
       IN (IF keep THEN <<s[k]>> ELSE <<>>) \o CollapseFrom(s, k + 1)

\* C7: every record's surface is the buffer text of its span with runs of
\* whitespace collapsed to one space and the ends trimmed, otherwise verbatim.
C7_SurfaceRoundTrip ==
  \A k \in 1..Len(out) :
    out[k].surface =
      CollapseFrom(SubSeq(buffer, out[k].span[1] + 1, out[k].span[2]), 1)

\* A record whose span holds an upper-case letter and a run of two spaces.
C7_Witness ==
  \E k \in 1..Len(out) :
    /\ out[k].surface # out[k].match
    /\ Len(out[k].surface) < out[k].span[2] - out[k].span[1]

\* The first and last token of the run i..j together with any of the tokens
\* between them, as increasing sequences of token indices.
Picks(i, j) ==
  {p \in SeqUpTo(i..j, j - i + 1) :
     /\ Len(p) >= 1
     /\ p[1] = i
     /\ p[Len(p)] = j
     /\ \A n \in 1..(Len(p) - 1) : p[n] < p[n + 1]}

RECURSIVE JoinByTrie(_, _, _)
\* The normalized forms of the picked tokens joined onto acc: a token the
\* node reached so far has a direct transition for follows without a
\* separator, any other token after exactly one space.
JoinByTrie(acc, p, n) ==
  IF n > Len(p) THEN acc
  ELSE LET tok == Normalize(Toks[p[n]].text)
       IN JoinByTrie(IF Consume(trie, acc, tok) # None
                     THEN acc \o tok
                     ELSE acc \o <<" ">> \o tok,
                     p, n + 1)

C9_TokenBoundarySpans ==
  /\ \A k \in 1..Len(out) :
       \E i \in 1..Len(Toks) : \E j \in i..Len(Toks) :
         /\ Toks[i].start = out[k].span[1]
         /\ Toks[j].end = out[k].span[2]
  /\ pc = "yielded" =>
       /\ out[Len(out)].span[2] = end
       /\ end = Toks[tokIdx].end

\* A record spanning more than one token has just been handed over, in a
\* buffer that does not begin with a token.
C9_Witness ==
  /\ pc = "yielded"
  /\ IsSpace(buffer[1])
  /\ \E i \in 1..Len(Toks) : \E j \in (i + 1)..Len(Toks) :
       out[Len(out)].span = <<Toks[i].start, Toks[j].end>>

\* C10: a scan of a buffer without tokens emits no record, makes no call of
\* Trie.consume and goes from its call straight to its return.
C10_EmptyInput ==
  Tokens(buffer) = <<>> =>
    /\ out = <<>>
    /\ consumeCalls = 0
    /\ pc \in {"call", "for_token", "done"}

\* The scan of a buffer of whitespace only has returned.
C10_Witness ==
  /\ Done
  /\ Tokens(buffer) = <<>>
  /\ buffer # <<>>

\* The index of the buffer token that ends at offset e (0 when there is none).
TokenEndingAt(e) ==
  IF \E i \in 1..Len(Toks) : Toks[i].end = e
  THEN CHOOSE i \in 1..Len(Toks) : Toks[i].end = e
  ELSE 0

\* C11: every step hands over at most one record, and exactly the steps that
\* hand one over suspend the scan; at that moment the tokens taken and
\* normalized are those up to the one ending at the record's span end; the
\* step after a suspension goes on with the same live-state list, the same
\* token and the next lower index of the reverse iteration, and hands over
\* nothing itself.
C11_Lazy ==
  [][/\ Len(out') <= Len(out) + 1
     /\ SubSeq(out', 1, Len(out)) = out
     /\ (Len(out') = Len(out) + 1) <=> (pc' = "yielded")
     /\ pc' = "yielded" =>
          /\ tokIdx' = TokenEndingAt(out'[Len(out')].span[2])
          /\ token' = Normalize(Toks[tokIdx'].text)
          /\ local'.consumed = out'[Len(out')].match
     /\ pc = "yielded" =>
          /\ live_states' = live_states
          /\ tokIdx' = tokIdx
          /\ token' = token
          /\ state_index' = state_index - 1
          /\ pc' = "for_state"]_vars

\* A second record has been handed over while a later token is still to be
\* taken.
C11_Witness ==
  /\ pc = "yielded"
  /\ Len(out) >= 2
  /\ tokIdx < Len(tokens)

\* ------------------------------------------------ two scans over one trie
MaxPairLen == 3

\* Calls of scan on one StringFinder.
MaxScans == 3

\* The buffers of two scans that are pulled in turn.
PairBuffers == SeqUpTo(RepeatChars, MaxPairLen)

\* The frame of a generator that scan(buf) has returned and nobody has pulled.
CallFrame(buf) ==
  [buffer |-> buf, tokens |-> <<>>, tokIdx |-> 0, token |-> <<>>,
   start |-> 0, end |-> 0, live_states |-> <<>>, new_live_states |-> <<>>,
   state_index |-> 0, local |-> NoLocal, pc |-> "call", out |-> <<>>,
   consumeCalls |-> 0]

\* Two calls of scan on the same StringFinder: generator 1 is about to be
\* pulled, generator 2 waits.
InitTwo ==
  /\ trie \in {BuildTrie(d) : d \in Dictionaries}
  /\ buffer \in PairBuffers
  /\ tokens = <<>>
  /\ tokIdx = 0
  /\ token = <<>>
  /\ start = 0
  /\ end = 0
  /\ live_states = <<>>
  /\ new_live_states = <<>>
  /\ state_index = 0
  /\ local = NoLocal
  /\ pc = "call"
  /\ out = <<>>
  /\ consumeCalls = 0
  /\ parked \in {CallFrame(buf) : buf \in PairBuffers}
  /\ scans = 2
  /\ error = NoError
  /\ MergeIdle
  /\ IndexIdle
  /\ SuffixIdle
  /\ LoggedIdle

\* Switch with new_live_states being one list that both generators work on.
SwitchSharedNewList ==
  /\ pc \in {"call", "yielded", "done"}
  /\ parked # NoFrame
  /\ parked' = Frame
  /\ buffer' = parked.buffer
  /\ tokens' = parked.tokens
  /\ tokIdx' = parked.tokIdx
  /\ token' = parked.token
  /\ start' = parked.start
  /\ end' = parked.end
  /\ live_states' = parked.live_states
  /\ state_index' = parked.state_index
  /\ local' = parked.local
  /\ pc' = parked.pc
  /\ out' = parked.out
  /\ consumeCalls' = parked.consumeCalls
  /\ UNCHANGED <<trie, new_live_states, scans, error>>
  /\ UNCHANGED elsewhere

\* The caller turns to the other generator. A generator is left only where it
\* is suspended: before its first pull, at its yield (line 119), or after it
\* has returned; all the names of lines 81-143 are locals of its own frame,
\* and the trie is an attribute of the StringFinder both were made from.
Switch ==
  /\ pc \in {"call", "yielded", "done"}
  /\ parked # NoFrame
  /\ parked' = Frame
  /\ buffer' = parked.buffer
  /\ tokens' = parked.tokens
  /\ tokIdx' = parked.tokIdx
  /\ token' = parked.token
  /\ start' = parked.start
  /\ end' = parked.end
  /\ live_states' = parked.live_states
  /\ new_live_states' = parked.new_live_states
  /\ state_index' = parked.state_index
  /\ local' = parked.local
  /\ pc' = parked.pc
  /\ out' = parked.out
  /\ consumeCalls' = parked.consumeCalls
  /\ UNCHANGED <<trie, scans, error>>
  /\ UNCHANGED elsewhere

\* Again with the live states of the finished scan left for the new one.
AgainWithLeftOver ==
  /\ pc = "done"
  /\ scans < MaxScans
  /\ scans' = scans + 1
  /\ \E buf \in PairBuffers :
       /\ buffer' = buf
       /\ tokens' = TokenStream(buf)
  /\ tokIdx' = 0
  /\ pc' = "for_token"
  /\ out' = <<>>
  /\ consumeCalls' = 0
  /\ UNCHANGED <<trie, token, start, end, live_states, new_live_states,
                 state_index, local, parked, error>>
  /\ UNCHANGED elsewhere

\* scan is called once more on the same StringFinder (lines 48-50) after a
\* generator has returned: a new generator with a frame of its own.
Again ==
  /\ pc = "done"
  /\ scans < MaxScans
  /\ scans' = scans + 1
  /\ \E buf \in PairBuffers :
       LET f == CallFrame(buf)
       IN /\ buffer' = f.buffer
          /\ tokens' = f.tokens
          /\ tokIdx' = f.tokIdx
          /\ token' = f.token
          /\ start' = f.start
          /\ end' = f.end
          /\ live_states' = f.live_states
          /\ new_live_states' = f.new_live_states
          /\ state_index' = f.state_index
          /\ local' = f.local
          /\ pc' = f.pc
          /\ out' = f.out
          /\ consumeCalls' = f.consumeCalls
  /\ UNCHANGED <<trie, parked, error>>
  /\ UNCHANGED elsewhere

NextTwo == Next \/ Switch \/ Again

SpecTwo == InitTwo /\ [][NextTwo]_allvars

\* One step of a generator on its own, as a function of its frame: the step
\* that Call, NextToken, Exhausted, Advance, Resume or EndToken takes there.
FStep(t, f) ==
  IF f.pc = "call"
  THEN [f EXCEPT !.tokens = TokenStream(f.buffer),
                 !.live_states = InitialLiveStates,
                 !.pc = "for_token"]
  ELSE IF f.pc = "for_token"
  THEN IF f.tokIdx < Len(f.tokens)
       THEN LET tk == f.tokens[f.tokIdx + 1]
            IN [f EXCEPT !.token = Normalize(tk.text),
                         !.start = tk.start,
                         !.end = tk.end,
                         !.tokIdx = f.tokIdx + 1,
                         !.new_live_states = f.live_states,
                         !.state_index = FirstIndex(f.live_states),
                         !.pc = "for_state"]
       ELSE [f EXCEPT !.pc = "done"]
  ELSE IF f.pc = "for_state"
  THEN IF f.state_index >= 0
       THEN LET st == f.live_states[f.state_index + 1]
                state_start == StateStart(st.consumed, st.state_start, f.start)
                res == ConsumeToken(t, st.state, f.token, st.consumed)
                g == [f EXCEPT !.consumeCalls =
                        f.consumeCalls + ConsumeCount(t, st.state, f.token)]
            IN IF res.next_state = None
               THEN [g EXCEPT !.new_live_states =
                                Prune(f.new_live_states, f.state_index),
                              !.state_index = f.state_index - 1]
               ELSE IF IsFinal(t, res.next_state)
               THEN [g EXCEPT !.out = Append(f.out,
                                MatchRecord(t, f.buffer, state_start, f.end,
                                            res.consumed, res.next_state)),
                              !.local = [next_state |-> res.next_state,
                                         state_start |-> state_start,
                                         consumed |-> res.consumed],
                              !.pc = "yielded"]
               ELSE [g EXCEPT !.new_live_states =
                                Kept(t, f.new_live_states, res.next_state,
                                     state_start, res.consumed),
                              !.state_index = f.state_index - 1]
       ELSE [f EXCEPT !.live_states = f.new_live_states, !.pc = "for_token"]
  ELSE IF f.pc = "yielded"
  THEN [f EXCEPT !.new_live_states =
                   Kept(t, f.new_live_states, f.local.next_state,
                        f.local.state_start, f.local.consumed),
                 !.state_index = f.state_index - 1,
                 !.local = NoLocal,
                 !.pc = "for_state"]
  ELSE f

RECURSIVE RunAlone(_, _)
\* The frame a generator ends in when it is pulled to exhaustion with nothing
\* else going on.
RunAlone(t, f) == IF f.pc = "done" THEN f ELSE RunAlone(t, FStep(t, f))

\* The records scan(buf) emits when it runs alone.
AloneOut(t, buf) == RunAlone(t, CallFrame(buf)).out

\* The frames of the two generators.
Frames == {Frame, parked}

\* C12: in every interleaving of the pulls of two scans over one trie, what
\* each scan has emitted so far is a prefix of what it emits when run alone,
\* and all of it once the scan has returned; no step changes the trie.
C12_Independent ==
  /\ [](\A f \in Frames :
          /\ IsPrefix(f.out, AloneOut(trie, f.buffer))
          /\ f.pc = "done" => f.out = AloneOut(trie, f.buffer))
  /\ [][trie' = trie]_allvars

\* Both scans are suspended at a yield over different buffers, one of them
\* with a second record handed over: the caller has gone back and forth.
C12_Witness ==
  /\ pc = "yielded"
  /\ parked.pc = "yielded"
  /\ Len(out) >= 2
  /\ Len(parked.out) >= 1
  /\ parked.buffer # buffer

\* C13: whenever two scans of the same buffer over the same trie have both
\* returned, they have emitted the same records in the same order, whichever
\* scans the StringFinder ran before and in between.
C13_Deterministic ==
  \A f \in Frames : \A g \in Frames :
    (f.pc = "done" /\ g.pc = "done" /\ f.buffer = g.buffer) => f.out = g.out

\* The third scan of the StringFinder has returned with the records of an
\* earlier scan of the same buffer, two or more.
C13_Witness ==
  /\ scans = 3
  /\ pc = "done"
  /\ parked.pc = "done"
  /\ parked.buffer = buffer
  /\ Len(out) >= 2

\* ------------------------------------------------- failing collaborators
\* The exceptions the collaborators of scan can raise into it.
Errors == {"TokenizerError", "NormalizerError"}

\* Raise with the exception caught inside scan: the token is skipped and the
\* loop goes on.
RaiseSwallowed ==
  /\ pc = "for_token"
  /\ tokIdx < Len(tokens)
  /\ error' \in Errors
  /\ tokIdx' = tokIdx + 1
  /\ UNCHANGED <<trie, buffer, tokens, token, start, end, live_states,
                 new_live_states, state_index, local, pc, out, consumeCalls,
                 parked, scans>>
  /\ UNCHANGED elsewhere

\* Lines 81, 86 and 87 are the calls into the tokenizer and the normalizer;
\* scan has no try statement, so an exception raised there leaves the
\* generator through its frame and the generator is finished.
Raise ==
  /\ pc \in {"call", "for_token"}
  /\ error' \in (IF pc = "call" THEN {"TokenizerError"} ELSE Errors)
  /\ pc' = "raised"
  /\ UNCHANGED <<trie, buffer, tokens, tokIdx, token, start, end, live_states,
                 new_live_states, state_index, local, out, consumeCalls,
                 parked, scans>>
  /\ UNCHANGED elsewhere

NextFail == Next \/ Raise

SpecFail == Init /\ [][NextFail]_allvars

\* C14: once a collaborator has failed while token tokIdx + 1 was being
\* obtained or normalized, the scan is over with that exception (no step of
\* it can be taken any more, so nothing is emitted or emitted again), and
\* every record it has emitted completes on one of the tokens before.
C14_FailureAborts ==
  error # NoError =>
    /\ error \in Errors
    /\ pc = "raised"
    /\ ~ENABLED NextFail
    /\ \A k \in 1..Len(out) :
         TokenEndingAt(out[k].span[2]) \in 1..tokIdx

\* The normalizer has failed after a record was handed over, with records
\* of later tokens that the scan would have gone on to emit.
C14_Witness ==
  /\ error = "NormalizerError"
  /\ pc = "raised"
  /\ Len(out) >= 1
  /\ tokIdx >= 1
  /\ Len(AloneOut(trie, buffer)) > Len(out)

\* ----------------------------------------------------------- termination
\* A caller that keeps pulling: a step of the scan that can be taken is taken.
SpecLive == Init /\ [][Next]_allvars /\ WF_allvars(Next)

\* The steps of one token step: from the copy of line 93 to line 143.
InTokenStep == pc \in {"for_state", "yielded"}

\* C15: a scan that is pulled again and again returns; and within a token
\* step the list iterated over stays as it was when the step began, while
\* the index into it never goes up and goes down by one with every state
\* dealt with, so the step ends after Len(live_states) states.
C15_Terminates ==
  /\ <>(pc = "done")
  /\ [](InTokenStep => state_index \in -1..(Len(live_states) - 1))
  /\ [][(InTokenStep /\ pc' # "for_token") =>
          /\ live_states' = live_states
          /\ state_index' \in {state_index, state_index - 1}
          /\ (pc' = "for_state" => state_index' = state_index - 1)]_allvars

\* A scan over three tokens or more has returned after three records or
\* more.
C15_Witness ==
  /\ pc = "done"
  /\ Len(tokens) >= 3
  /\ Len(out) >= 3

\* --------------------------------------------------------- PostingsMerger
MaxDocId == 3

DocIdPool == 0..MaxDocId

TermFrequencies == {1, 2}

\* next(iterator, None) on an exhausted iterator.
NoPosting == [document_id |-> -1, term_frequency |-> 0]

\* The truth value of a posting or None in a condition.
Truthy(p) == p # NoPosting

RECURSIVE PostingList(_, _)
\* The posting list of the documents S in increasing order of document_id.
PostingList(S, tf) ==
  IF S = {} THEN <<>>
  ELSE LET d == CHOOSE x \in S : \A y \in S : x <= y
       IN <<[document_id |-> d, term_frequency |-> tf[d]]>>
            \o PostingList(S \ {d}, tf)

\* The posting lists sorted by strictly increasing document identifier.
PostingLists ==
  UNION {{PostingList(S, tf) : tf \in [S -> TermFrequencies]} :
           S \in SUBSET DocIdPool}

\* next(it, None): the posting delivered.
NextOf(it) == IF it = <<>> THEN NoPosting ELSE Head(it)

\* next(it, None): the iterator afterwards.
Rest(it) == IF it = <<>> THEN <<>> ELSE Tail(it)

\* No scan is going on.
ScanIdle ==
  /\ trie = <<>>
  /\ buffer = <<>>
  /\ tokens = <<>>
  /\ tokIdx = 0
  /\ token = <<>>
  /\ start = 0
  /\ end = 0
  /\ live_states = <<>>
  /\ new_live_states = <<>>
  /\ state_index = 0
  /\ local = NoLocal
  /\ pc = "idle"
  /\ out = <<>>
  /\ consumeCalls = 0
  /\ parked = NoFrame
  /\ scans = 0
  /\ error = NoError

\* What a step of a merge leaves alone.
mergeRest ==
  <<vars, parked, scans, error, indexVars, suffixVars, loggedVars>>

\* One of the three methods is called on two sorted posting lists.
InitMerge ==
  /\ op \in {"intersection", "union", "difference"}
  /\ listA \in PostingLists
  /\ listB \in PostingLists
  /\ iter1 = listA
  /\ iter2 = listB
  /\ a = NoPosting
  /\ b = NoPosting
  /\ merged = <<>>
  /\ mpc = "call"
  /\ ScanIdle
  /\ IndexIdle
  /\ SuffixIdle
  /\ LoggedIdle

\* Lines 39-41, 69-71, 101-103: the first posting of each list.
MergeCall ==
  /\ mpc = "call"
  /\ a' = NextOf(iter1)
  /\ b' = NextOf(iter2)
  /\ iter1' = Rest(iter1)
  /\ iter2' = Rest(iter2)
  /\ mpc' = "loop"
  /\ UNCHANGED <<op, listA, listB, merged, mergeRest>>

\* Line 43.
IntersectionCond == Truthy(a) /\ Truthy(b)

\* Line 73.
UnionCond == Truthy(a) \/ Truthy(b)

\* DifferenceCond ending the loop as soon as either list is used up.
DifferenceCondBoth == Truthy(a) /\ Truthy(b)

\* Line 105.
DifferenceCond == Truthy(a)

\* The condition of the while loop of the method called.
LoopCond ==
  CASE op = "intersection" -> IntersectionCond
    [] op = "union" -> UnionCond
    [] op = "difference" -> DifferenceCond
    [] OTHER -> FALSE

\* IntersectionStep with the two comparisons of the elif chain exchanged.
IntersectionStepSwapped ==
  /\ op = "intersection"
  /\ mpc = "loop"
  /\ IntersectionCond
  /\ IF a.document_id = b.document_id
     THEN /\ merged' = Append(merged, a)
          /\ a' = NextOf(iter1)
          /\ b' = NextOf(iter2)
          /\ iter1' = Rest(iter1)
          /\ iter2' = Rest(iter2)
     ELSE IF a.document_id > b.document_id
     THEN /\ a' = NextOf(iter1)
          /\ iter1' = Rest(iter1)
          /\ UNCHANGED <<b, iter2, merged>>
     ELSE /\ b' = NextOf(iter2)
          /\ iter2' = Rest(iter2)
          /\ UNCHANGED <<a, iter1, merged>>
  /\ UNCHANGED <<op, listA, listB, mpc, mergeRest>>

\* Lines 43-50: one round of the loop of intersection.
IntersectionStep ==
  /\ op = "intersection"
  /\ mpc = "loop"
  /\ IntersectionCond
  /\ IF a.document_id = b.document_id
     THEN /\ merged' = Append(merged, a)
          /\ a' = NextOf(iter1)
          /\ b' = NextOf(iter2)
          /\ iter1' = Rest(iter1)
          /\ iter2' = Rest(iter2)
     ELSE IF a.document_id < b.document_id
     THEN /\ a' = NextOf(iter1)
          /\ iter1' = Rest(iter1)
          /\ UNCHANGED <<b, iter2, merged>>
     ELSE /\ b' = NextOf(iter2)
          /\ iter2' = Rest(iter2)
          /\ UNCHANGED <<a, iter1, merged>>
  /\ UNCHANGED <<op, listA, listB, mpc, mergeRest>>

\* UnionStep with both postings yielded when the document identifiers are
\* equal.
UnionStepYieldingBoth ==
  /\ op = "union"
  /\ mpc = "loop"
  /\ UnionCond
  /\ IF ~Truthy(b) \/ (Truthy(a) /\ a.document_id < b.document_id)
     THEN /\ merged' = Append(merged, a)
          /\ a' = NextOf(iter1)
          /\ iter1' = Rest(iter1)
          /\ UNCHANGED <<b, iter2>>
     ELSE IF ~Truthy(a) \/ a.document_id > b.document_id
     THEN /\ merged' = Append(merged, b)
          /\ b' = NextOf(iter2)
          /\ iter2' = Rest(iter2)
          /\ UNCHANGED <<a, iter1>>
     ELSE /\ merged' = Append(Append(merged, a), b)
          /\ a' = NextOf(iter1)
          /\ b' = NextOf(iter2)
          /\ iter1' = Rest(iter1)
          /\ iter2' = Rest(iter2)
  /\ UNCHANGED <<op, listA, listB, mpc, mergeRest>>

\* UnionStep with the comparisons of lines 74 and 77 turned round: the
\* posting with the greater document identifier is yielded first.
UnionStepGreaterFirst ==
  /\ op = "union"
  /\ mpc = "loop"
  /\ UnionCond
  /\ IF ~Truthy(b) \/ (Truthy(a) /\ a.document_id > b.document_id)
     THEN /\ merged' = Append(merged, a)
          /\ a' = NextOf(iter1)
          /\ iter1' = Rest(iter1)
          /\ UNCHANGED <<b, iter2>>
     ELSE IF ~Truthy(a) \/ a.document_id < b.document_id
     THEN /\ merged' = Append(merged, b)
          /\ b' = NextOf(iter2)
          /\ iter2' = Rest(iter2)
          /\ UNCHANGED <<a, iter1>>
     ELSE /\ merged' = Append(merged, a)
          /\ a' = NextOf(iter1)
          /\ b' = NextOf(iter2)
          /\ iter1' = Rest(iter1)
          /\ iter2' = Rest(iter2)
  /\ UNCHANGED <<op, listA, listB, mpc, mergeRest>>

\* Lines 73-82: one round of the loop of union.
UnionStep ==
  /\ op = "union"
  /\ mpc = "loop"
  /\ UnionCond
  /\ IF ~Truthy(b) \/ (Truthy(a) /\ a.document_id < b.document_id)
     THEN /\ merged' = Append(merged, a)
          /\ a' = NextOf(iter1)
          /\ iter1' = Rest(iter1)
          /\ UNCHANGED <<b, iter2>>
     ELSE IF ~Truthy(a) \/ a.document_id > b.document_id
     THEN /\ merged' = Append(merged, b)
          /\ b' = NextOf(iter2)
          /\ iter2' = Rest(iter2)
          /\ UNCHANGED <<a, iter1>>
     ELSE /\ merged' = Append(merged, a)
          /\ a' = NextOf(iter1)
          /\ b' = NextOf(iter2)
          /\ iter1' = Rest(iter1)
          /\ iter2' = Rest(iter2)
  /\ UNCHANGED <<op, listA, listB, mpc, mergeRest>>

\* Lines 105-112: one round of the loop of difference.
DifferenceStep ==
  /\ op = "difference"
  /\ mpc = "loop"
  /\ DifferenceCond
  /\ IF ~Truthy(b) \/ a.document_id < b.document_id
     THEN /\ merged' = Append(merged, a)
          /\ a' = NextOf(iter1)
          /\ iter1' = Rest(iter1)
          /\ UNCHANGED <<b, iter2>>
     ELSE IF a.document_id > b.document_id
     THEN /\ b' = NextOf(iter2)
          /\ iter2' = Rest(iter2)
          /\ UNCHANGED <<a, iter1, merged>>
     ELSE /\ a' = NextOf(iter1)
          /\ b' = NextOf(iter2)
          /\ iter1' = Rest(iter1)
          /\ iter2' = Rest(iter2)
          /\ UNCHANGED merged
  /\ UNCHANGED <<op, listA, listB, mpc, mergeRest>>

\* The condition of the while loop is false: the generator returns.
MergeReturn ==
  /\ mpc = "loop"
  /\ ~LoopCond
  /\ mpc' = "done"
  /\ UNCHANGED <<op, listA, listB, iter1, iter2, a, b, merged, mergeRest>>

NextMerge ==
  MergeCall \/ IntersectionStep \/ UnionStep \/ DifferenceStep \/ MergeReturn

SpecMerge == InitMerge /\ [][NextMerge]_allvars

\* The document identifiers of a posting list.
DocIds(l) == {l[k].document_id : k \in DOMAIN l}

\* How often document d has a posting in l.
Count(l, d) == Cardinality({k \in DOMAIN l : l[k].document_id = d})

\* The postings of a posting list.
PostingsOf(l) == {l[k] : k \in DOMAIN l}

\* Every posting yielded is one of the postings delivered by the arguments.
FromArguments == PostingsOf(merged) \subseteq PostingsOf(listA) \cup PostingsOf(listB)

\* C16: when intersection has returned, a document has one posting in the
\* result if it has one in both A and B, and none otherwise; and at every
\* moment the postings yielded are postings of the arguments.
C16_Intersection ==
  op = "intersection" =>
    /\ FromArguments
    /\ mpc = "done" =>
         \A d \in DocIdPool :
           Count(merged, d) =
             IF d \in DocIds(listA) \cap DocIds(listB) THEN 1 ELSE 0

\* intersection has returned two postings from lists that each hold a
\* document the other lacks.
C16_Witness ==
  /\ op = "intersection"
  /\ mpc = "done"
  /\ Len(merged) = 2
  /\ DocIds(listA) \ DocIds(listB) # {}
  /\ DocIds(listB) \ DocIds(listA) # {}

\* C17: when union has returned, a document has one posting in the result
\* if it has one in A or in B, and none otherwise, also when A or B is
\* empty; and at every moment the postings yielded are postings of the
\* arguments.
C17_Union ==
  op = "union" =>
    /\ FromArguments
    /\ mpc = "done" =>
         \A d \in DocIdPool :
           Count(merged, d) =
             IF d \in DocIds(listA) \cup DocIds(listB) THEN 1 ELSE 0

\* union has returned over lists that share a document and each hold one the
\* other lacks.
C17_Witness ==
  /\ op = "union"
  /\ mpc = "done"
  /\ DocIds(listA) \cap DocIds(listB) # {}
  /\ DocIds(listA) \ DocIds(listB) # {}
  /\ DocIds(listB) \ DocIds(listA) # {}

\* The postings of A for documents that B does not hold, in A's order.
RECURSIVE Without(_, _)
Without(l, D) ==
  IF l = <<>> THEN <<>>
  ELSE IF Head(l).document_id \in D THEN Without(Tail(l), D)
       ELSE <<Head(l)>> \o Without(Tail(l), D)

\* C18: when difference has returned, a document has one posting in the
\* result if it has one in A and none in B, and none otherwise; the result
\* is A's postings for those documents, so what is left of A when B is
\* empty or used up comes out as it is.
C18_Difference ==
  op = "difference" =>
    /\ FromArguments
    /\ mpc = "done" =>
         /\ \A d \in DocIdPool :
              Count(merged, d) =
                IF d \in DocIds(listA) \ DocIds(listB) THEN 1 ELSE 0
         /\ merged = Without(listA, DocIds(listB))

\* difference has returned after B was used up with two postings of A or
\* more still to come, and after a document of B was taken out.
C18_Witness ==
  /\ op = "difference"
  /\ mpc = "done"
  /\ listB # <<>>
  /\ DocIds(listA) \cap DocIds(listB) # {}
  /\ Cardinality({d \in DocIds(listA) :
                    \A e \in DocIds(listB) : e < d}) >= 2

\* ---------------------------------------------------- InMemoryInvertedIndex
MaxDocs == 2

MaxDocLen == 3

\* The indexed content of a document: its fields joined by spaces (line 124).
Contents == SeqUpTo(Chars, MaxDocLen)

\* The corpora: documents 0, 1, ... in the order the corpus delivers them.
Corpora == SeqUpTo(Contents, MaxDocs)

\* The terms looked up: the words over a and b of up to two letters.
QueryTerms == SeqUpTo({"a", "b"}, 2) \ {<<>>}

\* Lines 159-163: the normalized tokens of the buffer.
GetTerms(content) == NormalizedTokens(content)

\* InMemoryDictionary.get_term_id for a term that is not in the dictionary:
\* None.
NoTermId == -1

\* InMemoryDictionary.add_if_absent: the dictionary afterwards. A new term
\* gets the number of terms already there, which is what lines 146-150 rely on.
AddIfAbsent(dict, term) ==
  IF term \in DOMAIN dict THEN dict
  ELSE [t \in DOMAIN dict \cup {term} |->
          IF t = term THEN Cardinality(DOMAIN dict) ELSE dict[t]]

\* InMemoryDictionary.get_term_id.
GetTermId(dict, term) ==
  IF term \in DOMAIN dict THEN dict[term] ELSE NoTermId

RECURSIVE AddAll(_, _)
\* The dictionary after _add_to_dictionary on each term (line 126).
AddAll(dict, terms) ==
  IF terms = <<>> THEN dict
  ELSE AddAll(AddIfAbsent(dict, Head(terms)), Tail(terms))

RECURSIVE CounterKeys(_, _)
\* The keys of the Counter of line 126 in insertion order: the term
\* identifiers in the order of their first occurrence in the document.
CounterKeys(ids, seen) ==
  IF ids = <<>> THEN <<>>
  ELSE IF Head(ids) \in seen THEN CounterKeys(Tail(ids), seen)
       ELSE <<Head(ids)>> \o CounterKeys(Tail(ids), seen \cup {Head(ids)})

\* The count the Counter holds for a key.
CounterCount(ids, id) == Cardinality({k \in DOMAIN ids : ids[k] = id})

\* Lines 140-150.
AppendToPostingList(lists, term_id, document_id, term_frequency) ==
  LET grown == IF term_id >= Len(lists) THEN Append(lists, <<>>) ELSE lists
  IN [grown EXCEPT ![term_id + 1] =
        Append(@, [document_id |-> document_id,
                   term_frequency |-> term_frequency])]

RECURSIVE AppendAll(_, _, _, _)
\* Lines 128-129: the loop over term_counter.items().
AppendAll(lists, keys, ids, document_id) ==
  IF keys = <<>> THEN lists
  ELSE AppendAll(AppendToPostingList(lists, Head(keys), document_id,
                                     CounterCount(ids, Head(keys))),
                 Tail(keys), ids, document_id)

\* What a step of the index leaves alone.
indexRest ==
  <<vars, parked, scans, error, mergeVars, suffixVars, loggedVars>>

\* Lines 85-91: the constructor has set the attributes and enters
\* _build_index.
InitIndex ==
  /\ corpus \in Corpora
  /\ docIdx = 0
  /\ dictionary = <<>>
  /\ posting_lists = <<>>
  /\ asked = NoLookup
  /\ ipc = "build"
  /\ ScanIdle
  /\ MergeIdle
  /\ SuffixIdle
  /\ LoggedIdle

\* Lines 121-131: one round of the loop over the documents.
IndexDocument ==
  /\ ipc = "build"
  /\ docIdx < Len(corpus)
  /\ LET doc_id == docIdx
         terms == GetTerms(corpus[docIdx + 1])
         dict == AddAll(dictionary, terms)
         ids == [k \in DOMAIN terms |-> dict[terms[k]]]
     IN /\ dictionary' = dict
        /\ posting_lists' = AppendAll(posting_lists, CounterKeys(ids, {}),
                                      ids, doc_id)
  /\ docIdx' = docIdx + 1
  /\ UNCHANGED <<corpus, asked, ipc, indexRest>>

\* Line 121 with the documents used up: the constructor returns.
BuildDone ==
  /\ ipc = "build"
  /\ docIdx >= Len(corpus)
  /\ ipc' = "ready"
  /\ UNCHANGED <<corpus, docIdx, dictionary, posting_lists, asked, indexRest>>

\* The truth value of a term identifier in the conditions of lines 172 and
\* 176: None and 0 are false.
TermIdTruthy(term_id) == term_id # NoTermId /\ term_id # 0

\* Lines 170-172: the postings the returned iterator delivers.
GetPostingsIterator(term) ==
  LET term_id == GetTermId(dictionary, term)
  IN IF TermIdTruthy(term_id) THEN posting_lists[term_id + 1] ELSE <<>>

\* Lines 174-176.
GetDocumentFrequency(term) ==
  LET term_id == GetTermId(dictionary, term)
  IN IF TermIdTruthy(term_id) THEN Len(posting_lists[term_id + 1]) ELSE 0

\* Lines 27-28.
Contains(term) == GetDocumentFrequency(term) > 0

\* A client calls get_document_frequency(term).
AskDocumentFrequency ==
  /\ ipc = "ready"
  /\ \E term \in QueryTerms :
       asked' = [method |-> "get_document_frequency", term |-> term,
                 result |-> GetDocumentFrequency(term)]
  /\ UNCHANGED <<corpus, docIdx, dictionary, posting_lists, ipc, indexRest>>

\* A client evaluates term in index.
AskContains ==
  /\ ipc = "ready"
  /\ \E term \in QueryTerms :
       asked' = [method |-> "__contains__", term |-> term,
                 result |-> Contains(term)]
  /\ UNCHANGED <<corpus, docIdx, dictionary, posting_lists, ipc, indexRest>>

\* A client calls get_postings_iterator(term) and reads the iterator out.
AskPostings ==
  /\ ipc = "ready"
  /\ \E term \in QueryTerms :
       asked' = [method |-> "get_postings_iterator", term |-> term,
                 result |-> GetPostingsIterator(term)]
  /\ UNCHANGED <<corpus, docIdx, dictionary, posting_lists, ipc, indexRest>>

NextIndex ==
  IndexDocument \/ BuildDone \/ AskDocumentFrequency \/ AskContains
    \/ AskPostings

SpecIndex == InitIndex /\ [][NextIndex]_allvars

\* How often the term occurs in the content of a document.
Occurrences(content, term) ==
  Cardinality({k \in DOMAIN GetTerms(content) : GetTerms(content)[k] = term})

\* The documents (by position in the corpus) that contain the term.
DocumentsWith(term) ==
  {d \in 1..Len(corpus) : Occurrences(corpus[d], term) > 0}

RECURSIVE PostingsFrom(_, _)
\* One posting for each document from position d on that contains the term,
\* in corpus order, with the number of occurrences as term_frequency.
PostingsFrom(d, term) ==
  IF d > Len(corpus) THEN <<>>
  ELSE IF d \in DocumentsWith(term)
       THEN <<[document_id |-> d - 1,
               term_frequency |-> Occurrences(corpus[d], term)]>>
              \o PostingsFrom(d + 1, term)
       ELSE PostingsFrom(d + 1, term)

\* C19: get_document_frequency(t) returns the number of indexed documents
\* that contain t, and t in index is true exactly when that number is
\* greater than zero, for every term and every term identifier.
C19_DocumentFrequency ==
  /\ asked.method = "get_document_frequency" =>
       asked.result = Cardinality(DocumentsWith(asked.term))
  /\ asked.method = "__contains__" =>
       asked.result = (Cardinality(DocumentsWith(asked.term)) > 0)

\* C20: the iterator of get_postings_iterator(t) delivers one posting for
\* each document containing t, in the order the documents were indexed, with
\* the number of occurrences of t as term_frequency, and nothing for a term
\* that is in no document.
C20_PostingsIterator ==
  asked.method = "get_postings_iterator" =>
    asked.result = PostingsFrom(1, asked.term)

\* ------------------------------------------------------------ SuffixArray
MaxSuffixDocs == 6

MaxHitCount == 2

\* The content of the named fields of a document, joined (line 42).
SuffixContents ==
  { <<"a", "b", " ", " ", "A">>,
    <<"a">>,
    <<"b">> }

\* The corpora: documents 0, 1, ... in the order the corpus delivers them.
SuffixCorpora == SeqUpTo(SuffixContents, MaxSuffixDocs)

\* The queries put to evaluate.
Queries ==
  { <<>>,
    <<" ">>,
    <<"A">>,
    <<"b">>,
    <<"b", " ", "a">>,
    <<"a", "b", " ", " ", "a">> }

\* The options dictionaries: without the key hit_count, or with it.
OptionsPool ==
  {[has |-> FALSE, hit_count |-> 0]}
    \cup {[has |-> TRUE, hit_count |-> n] : n \in 0..MaxHitCount}

\* Line 118: the default of options.get('hit_count', 5).
DefaultHitCount == 5

\* Lines 72-82: the normalized tokens joined by single spaces.
SuffixNormalize(buf) == JoinSpace(NormalizedTokens(buf))

\* ord() of a character.
Ord(c) ==
  CASE c = " " -> 32
    [] c = "A" -> 65
    [] c = "a" -> 97
    [] c = "b" -> 98

RECURSIVE StrLess(_, _)
\* s < t on Python strings.
StrLess(s, t) ==
  IF t = <<>> THEN FALSE
  ELSE IF s = <<>> THEN TRUE
  ELSE IF Head(s) # Head(t) THEN Ord(Head(s)) < Ord(Head(t))
  ELSE StrLess(Tail(s), Tail(t))

\* str.startswith.
StartsWith(s, prefix) ==
  Len(prefix) <= Len(s) /\ SubSeq(s, 1, Len(prefix)) = prefix

\* Lines 64, 95, 124: the suffix a (haystack index, offset) pair stands for.
SuffixText(hay, su) ==
  SubSeq(hay[su[1] + 1].content, su[2] + 1, Len(hay[su[1] + 1].content))

\* Lines 41-48: the haystack of (document identifier, normalized content).
Haystack(docs) ==
  [i \in 1..Len(docs) |->
     [document_id |-> i - 1, content |-> SuffixNormalize(docs[i])]]

RECURSIVE OffsetsFromEvery(_, _, _)
\* OffsetsFrom with every offset taken, as in a suffix array of all suffixes.
OffsetsFromEvery(content, i, offset) ==
  IF offset >= Len(content) THEN <<>>
  ELSE <<<<i, offset>>>> \o OffsetsFromEvery(content, i, offset + 1)

RECURSIVE OffsetsFrom(_, _, _)
\* Lines 56-60 for haystack entry i: the offsets that start a token, in
\* increasing order.
OffsetsFrom(content, i, offset) ==
  IF offset >= Len(content) THEN <<>>
  ELSE IF offset = 0 \/ content[offset] = " "
       THEN <<<<i, offset>>>> \o OffsetsFrom(content, i, offset + 1)
       ELSE OffsetsFrom(content, i, offset + 1)

RECURSIVE UnsortedSuffixes(_, _)
\* Lines 54-60: the list suffixes before it is sorted.
UnsortedSuffixes(hay, i) ==
  IF i >= Len(hay) THEN <<>>
  ELSE OffsetsFrom(hay[i + 1].content, i, 0) \o UnsortedSuffixes(hay, i + 1)

RECURSIVE InsertSorted(_, _, _)
\* x put into the sorted list after every element whose key is not greater.
InsertSorted(hay, sorted, x) ==
  IF sorted = <<>> THEN <<x>>
  ELSE IF StrLess(SuffixText(hay, x), SuffixText(hay, Head(sorted)))
       THEN <<x>> \o sorted
       ELSE <<Head(sorted)>> \o InsertSorted(hay, Tail(sorted), x)

RECURSIVE SortedSuffixes(_, _, _)
\* Lines 63-64: sorted(suffixes, key=...), a stable sort by the suffix text.
SortedSuffixes(hay, todo, sorted) ==
  IF todo = <<>> THEN sorted
  ELSE SortedSuffixes(hay, Tail(todo), InsertSorted(hay, sorted, Head(todo)))

RECURSIVE BisectLeft(_, _, _, _, _)
\* Line 95: bisect_left(self.__suffixes, needle, key=...).
BisectLeft(hay, sufs, needle, lo, hi) ==
  IF lo >= hi THEN lo
  ELSE LET mid == (lo + hi) \div 2
       IN IF StrLess(SuffixText(hay, sufs[mid + 1]), needle)
          THEN BisectLeft(hay, sufs, needle, mid + 1, hi)
          ELSE BisectLeft(hay, sufs, needle, lo, mid)

\* Line 129: matches[document_id] += 1 on a Counter, which keeps its keys in
\* the order they were first counted.
Increment(counter, document_id) ==
  IF \E k \in DOMAIN counter : counter[k].document_id = document_id
  THEN [k \in DOMAIN counter |->
          IF counter[k].document_id = document_id
          THEN [counter[k] EXCEPT !.score = @ + 1]
          ELSE counter[k]]
  ELSE Append(counter, [document_id |-> document_id, score |-> 1])

RECURSIVE InsertRanked(_, _)
\* x put into the ranked list after every element whose score is not less.
InsertRanked(sorted, x) ==
  IF sorted = <<>> THEN <<x>>
  ELSE IF x.score > Head(sorted).score
       THEN <<x>> \o sorted
       ELSE <<Head(sorted)>> \o InsertRanked(Tail(sorted), x)

RECURSIVE RankedBy(_, _)
\* sorted(items, key=score, reverse=True): stable, greatest score first.
RankedBy(todo, sorted) ==
  IF todo = <<>> THEN sorted
  ELSE RankedBy(Tail(todo), InsertRanked(sorted, Head(todo)))

\* MostCommon without the ranking: the first n keys counted.
MostCommonUnranked(counter, n) ==
  IF n <= 0 THEN <<>>
  ELSE SubSeq(counter, 1, IF n < Len(counter) THEN n ELSE Len(counter))

\* Line 131: Counter.most_common(n) for an integer n.
MostCommon(counter, n) ==
  IF n <= 0 THEN <<>>
  ELSE SubSeq(RankedBy(counter, <<>>), 1,
              IF n < Len(counter) THEN n ELSE Len(counter))

\* What a step of the suffix array leaves alone.
suffixRest ==
  <<vars, parked, scans, error, mergeVars, indexVars, loggedVars>>

\* Lines 24-29: the constructor has set the attributes and enters
\* __build_suffix_array.
InitSuffix ==
  /\ documents \in SuffixCorpora
  /\ haystack = <<>>
  /\ suffixes = <<>>
  /\ options = <<>>
  /\ normalized_query = <<>>
  /\ hit_count = 0
  /\ cursor = 0
  /\ matches = <<>>
  /\ ranked = <<>>
  /\ yielded = <<>>
  /\ spc = "build"
  /\ ScanIdle
  /\ MergeIdle
  /\ IndexIdle
  /\ LoggedIdle

\* Lines 38-64: the haystack and the sorted suffixes.
BuildSuffixArray ==
  /\ spc = "build"
  /\ haystack' = Haystack(documents)
  /\ suffixes' = SortedSuffixes(haystack', UnsortedSuffixes(haystack', 0), <<>>)
  /\ spc' = "ready"
  /\ UNCHANGED <<documents, options, normalized_query, hit_count, cursor,
                 matches, ranked, yielded, suffixRest>>

\* Lines 114-121: evaluate is called and pulled; an empty normalized query
\* returns at once.
EvaluateCall ==
  /\ spc \in {"ready", "done"}
  /\ \E query \in Queries : \E opts \in OptionsPool :
       LET q == SuffixNormalize(query)
       IN /\ options' = opts
          /\ normalized_query' = q
          /\ yielded' = <<>>
          /\ ranked' = <<>>
          /\ matches' = <<>>
          /\ IF q = <<>>
             THEN /\ spc' = "done"
                  /\ hit_count' = 0
                  /\ cursor' = 0
             ELSE /\ spc' = "scan"
                  /\ hit_count' = IF opts.has THEN opts.hit_count
                                  ELSE DefaultHitCount
                  /\ cursor' = BisectLeft(haystack, suffixes, q, 0,
                                          Len(suffixes))
  /\ UNCHANGED <<documents, haystack, suffixes, suffixRest>>

\* The loop of line 123 goes on: there is a next suffix and it starts with
\* the query.
SuffixMatches ==
  /\ cursor < Len(suffixes)
  /\ StartsWith(SuffixText(haystack, suffixes[cursor + 1]), normalized_query)

\* Lines 123-129: one round of the loop over the suffixes.
CountSuffix ==
  /\ spc = "scan"
  /\ SuffixMatches
  /\ matches' = Increment(matches,
                          haystack[suffixes[cursor + 1][1] + 1].document_id)
  /\ cursor' = cursor + 1
  /\ UNCHANGED <<documents, haystack, suffixes, options, normalized_query,
                 hit_count, ranked, yielded, spc, suffixRest>>

\* Lines 126-127 and 131: the loop ends and the matches are ranked.
Rank ==
  /\ spc = "scan"
  /\ ~SuffixMatches
  /\ ranked' = MostCommon(matches, hit_count)
  /\ spc' = "yield"
  /\ UNCHANGED <<documents, haystack, suffixes, options, normalized_query,
                 hit_count, cursor, matches, yielded, suffixRest>>

\* Lines 131-132: the next result is yielded.
YieldResult ==
  /\ spc = "yield"
  /\ ranked # <<>>
  /\ yielded' = Append(yielded, Head(ranked))
  /\ ranked' = Tail(ranked)
  /\ UNCHANGED <<documents, haystack, suffixes, options, normalized_query,
                 hit_count, cursor, matches, spc, suffixRest>>

\* Line 131 with nothing left: the generator returns.
EvaluateReturn ==
  /\ spc = "yield"
  /\ ranked = <<>>
  /\ spc' = "done"
  /\ UNCHANGED <<documents, haystack, suffixes, options, normalized_query,
                 hit_count, cursor, matches, ranked, yielded, suffixRest>>

NextSuffix ==
  BuildSuffixArray \/ EvaluateCall \/ CountSuffix \/ Rank \/ YieldResult
    \/ EvaluateReturn

SpecSuffix == InitSuffix /\ [][NextSuffix]_allvars

\* The number of token starts of document d (by document identifier) at
\* which the normalized query is a prefix of the rest of the normalized
\* content.
Hits(d) ==
  LET content == SuffixNormalize(documents[d + 1])
  IN Cardinality({offset \in TokenStarts(content) :
                    StartsWith(SubSeq(content, offset + 1, Len(content)),
                               normalized_query)})

\* The document identifiers of the corpus.
DocumentIds == 0..(Len(documents) - 1)

\* The documents evaluate has yielded.
YieldedIds == {yielded[k].document_id : k \in DOMAIN yielded}

\* C21: once evaluate has gone through the suffixes for a non-empty
\* normalized query, the documents counted are exactly those with the query
\* as a prefix at some token start, each counted as often as there are such
\* token starts, and every result yielded reports that number as its score;
\* an empty normalized query yields nothing.
C21_PhrasePrefixScore ==
  /\ (spc \in {"yield", "done"} /\ normalized_query # <<>>) =>
       /\ \A d \in DocumentIds :
            (\E k \in DOMAIN matches : matches[k].document_id = d)
              <=> Hits(d) > 0
       /\ \A k \in DOMAIN matches :
            /\ matches[k].document_id \in DocumentIds
            /\ matches[k].score = Hits(matches[k].document_id)
       /\ \A k \in DOMAIN yielded :
            /\ yielded[k].document_id \in DocumentIds
            /\ yielded[k].score = Hits(yielded[k].document_id)
            /\ yielded[k].score > 0
  /\ (spc = "done" /\ normalized_query = <<>>) => yielded = <<>>

\* evaluate has returned results with different scores while a document
\* without the query at a token start got no result.
C21_Witness ==
  /\ spc = "done"
  /\ normalized_query # <<>>
  /\ Len(yielded) >= 2
  /\ \E k \in DOMAIN yielded : yielded[k].score # yielded[1].score
  /\ \E d \in DocumentIds : Hits(d) = 0

\* The greatest number of results evaluate may yield.
Limit == IF options.has THEN options.hit_count ELSE 5

\* C30: when evaluate has returned, it has yielded at most hit_count results
\* (5 without the option), no document twice, in non-increasing order of
\* score, and every matching document left out scores no more than every
\* document yielded.
C30_LimitAndRanking ==
  (spc = "done" /\ normalized_query # <<>>) =>
    /\ Len(yielded) <= Limit
    /\ \A j \in DOMAIN yielded : \A k \in DOMAIN yielded :
         (j < k) => /\ yielded[j].document_id # yielded[k].document_id
                    /\ yielded[j].score >= yielded[k].score
    /\ \A d \in DocumentIds \ YieldedIds : \A k \in DOMAIN yielded :
         Hits(d) <= yielded[k].score

\* evaluate without the option has returned five results and left out a
\* matching document, the results not all scoring the same.
C30_Witness ==
  /\ spc = "done"
  /\ ~options.has
  /\ Len(yielded) = 5
  /\ \E d \in DocumentIds \ YieldedIds : Hits(d) > 0
  /\ yielded[1].score > yielded[5].score

\* ------------------------------------------- invariants of the live states
\* The scan is between two tokens: live_states is the list the next token
\* step starts from.
AtTokenStart == pc = "for_token"

\* A live state positioned at the root that has consumed nothing.
IsRootState(st) == st.state = Root /\ st.consumed = <<>>

\* The list begins with the root state and holds no other one.
RootFirstAndOnly(states) ==
  /\ Len(states) >= 1
  /\ IsRootState(states[1])
  /\ \A k \in 2..Len(states) :
       states[k].state # Root /\ states[k].consumed # <<>>

\* C22: at the start of every token the live-state list begins with the
\* root state with empty consumed text and holds no other state at the root;
\* and during a token step the list being built keeps it in first place,
\* also when the root has no transition for the token.
C22_RootInvariant ==
  /\ AtTokenStart => RootFirstAndOnly(live_states)
  /\ InTokenStep => RootFirstAndOnly(new_live_states)

\* A token for which the root has no transition has been dealt with, after
\* an earlier token that left an in-flight state.
C22_Witness ==
  /\ AtTokenStart
  /\ tokIdx >= 2
  /\ Consume(trie, Root, token) = None
  /\ Len(live_states) >= 2

\* The index of the buffer token that starts at offset o, 0 if there is none.
TokenStartingAt(o) ==
  IF \E i \in 1..Len(Toks) : Toks[i].start = o
  THEN CHOOSE i \in 1..Len(Toks) : Toks[i].start = o
  ELSE 0

\* The tokens of a consumed text.
ConsumedTokens(st) == Split(st.consumed)

\* The state has consumed the buffer tokens from the one starting at its
\* state_start through token last, each once and in order.
Contiguous(st, last) ==
  LET first == TokenStartingAt(st.state_start)
  IN /\ first >= 1
     /\ first <= last
     /\ ConsumedTokens(st) = NormRun(first, last)

\* C23: at the start of every token, every live state but the root has
\* consumed exactly the tokens from the one at its state_start through the
\* token just dealt with; so no state is carried along in the form it had
\* before it advanced.
C23_Contiguity ==
  AtTokenStart =>
    \A k \in 2..Len(live_states) : Contiguous(live_states[k], tokIdx)

\* The state has no transition for the token, neither directly nor after a
\* space.
Unextendable(st, tok) ==
  ConsumeToken(trie, st.state, tok, st.consumed).next_state = None

\* The states of a list.
StatesOf(states) == {states[k] : k \in DOMAIN states}

\* C24: during a token step the state at state_index stands at the same
\* index in the list being built, so the pop of an unextendable state hits
\* that state; and when the step is through, every state of the old list
\* but the root that was unextendable is absent from the list the next
\* token starts with, and every other state of the old list is still in it.
C24_Pruning ==
  /\ (pc = "for_state" /\ state_index >= 0) =>
       /\ Len(new_live_states) > state_index
       /\ new_live_states[state_index + 1] = live_states[state_index + 1]
  /\ (pc = "for_state" /\ state_index < 0) =>
       \A k \in DOMAIN live_states :
         IF k > 1 /\ Unextendable(live_states[k], token)
         THEN live_states[k] \notin StatesOf(new_live_states)
         ELSE live_states[k] \in StatesOf(new_live_states)

\* The node has no outgoing transition.
NoTransitions(node) == Cardinality(Transitions(trie, node)) = 0

\* C25 as stated: at the start of every token no live state stands at a node
\* without outgoing transitions.
C25_NoDeadEnds ==
  AtTokenStart =>
    \A k \in 1..Len(live_states) : ~NoTransitions(live_states[k].state)

\* C25: at the start of every token no live state but the root stands at a
\* node without outgoing transitions; and a step that reaches such a node
\* hands over its record if the node is final and appends no state for it.
C25_NoDeadEndsButRoot ==
  /\ AtTokenStart =>
       \A k \in 2..Len(live_states) : ~NoTransitions(live_states[k].state)
  /\ InTokenStep =>
       \A k \in 2..Len(new_live_states) :
         ~NoTransitions(new_live_states[k].state)
  /\ (pc = "yielded" /\ NoTransitions(local.next_state)) =>
       /\ IsFinal(trie, local.next_state)
       /\ out[Len(out)].match = local.consumed

\* A token step is through in which a state reached a final node without
\* outgoing transitions and its record was handed over.
C25_Witness ==
  /\ AtTokenStart
  /\ Len(out) >= 1
  /\ NoTransitions(out[Len(out)].match)
  /\ TokenEndingAt(out[Len(out)].span[2]) = tokIdx
  /\ tokIdx < Len(tokens)

\* The number of tokens of the longest string stored in the trie.
LongestEntry ==
  IF DOMAIN trie = {} THEN 0
  ELSE CHOOSE n \in 0..(MaxBufLen + MaxRepeatLen) :
         /\ \E s \in DOMAIN trie : Len(Split(s)) = n
         /\ \A s \in DOMAIN trie : Len(Split(s)) <= n

\* C26: at the start of every token the live states but the root have
\* pairwise distinct state_start, each the start of one of the tokens dealt
\* with, and the list is no longer than 1 + the number of tokens dealt with
\* and no longer than 1 + the token length of the longest stored entry.
C26_BoundedWorkingSet ==
  AtTokenStart =>
    /\ \A j \in 2..Len(live_states) : \A k \in 2..Len(live_states) :
         (j # k) => live_states[j].state_start # live_states[k].state_start
    /\ \A k \in 2..Len(live_states) :
         TokenStartingAt(live_states[k].state_start) \in 1..tokIdx
    /\ Len(live_states) <= 1 + tokIdx
    /\ Len(live_states) <= 1 + LongestEntry

\* The state's node is the one its consumed text leads to from the root.
WalkConsistent(st) == Consume(trie, Root, st.consumed) = st.state

\* C27: in every state of a scan the node of each live state, in the list
\* of the token and in the list being built, is the node reached from the
\* root by its consumed text; and every record's match is a string stored
\* in the trie with the meta stored for it.
C27_TrieWalkConsistency ==
  /\ \A k \in DOMAIN live_states : WalkConsistent(live_states[k])
  /\ \A k \in DOMAIN new_live_states : WalkConsistent(new_live_states[k])
  /\ pc = "yielded" => Consume(trie, Root, local.consumed) = local.next_state
  /\ \A k \in DOMAIN out :
       /\ out[k].match \in DOMAIN trie
       /\ out[k].meta = trie[out[k].match]

\* A record of a stored entry of two tokens has been handed over whose meta
\* differs from its match, with a state in flight besides the root.
C27_Witness ==
  /\ pc = "yielded"
  /\ Len(Split(local.consumed)) >= 2
  /\ out[Len(out)].meta # out[Len(out)].match
  /\ Len(new_live_states) >= 2

\* The list is sorted by strictly increasing document identifier.
StrictlyIncreasing(l) ==
  \A j \in DOMAIN l : \A k \in DOMAIN l :
    (j < k) => l[j].document_id < l[k].document_id

\* The document set the method called stands for.
MergedDocIds ==
  CASE op = "intersection" -> DocIds(listA) \cap DocIds(listB)
    [] op = "union" -> DocIds(listA) \cup DocIds(listB)
    [] op = "difference" -> DocIds(listA) \ DocIds(listB)
    [] OTHER -> {}

\* C28: what a merge has yielded is at every moment sorted by strictly
\* increasing document identifier, and when it has returned it is the
\* posting list of the Boolean combination of the two document sets: one of
\* the sorted lists a merge accepts as an argument.
C28_MergeSorted ==
  mpc \in {"loop", "done"} =>
    /\ StrictlyIncreasing(merged)
    /\ mpc = "done" =>
         /\ DocIds(merged) = MergedDocIds
         /\ merged \in PostingLists

\* A merge has returned three postings or more taken from both arguments.
C28_Witness ==
  /\ mpc = "done"
  /\ Len(merged) >= 3
  /\ PostingsOf(merged) \cap PostingsOf(listA) # {}
  /\ PostingsOf(merged) \ PostingsOf(listA) # {}

\* ------------------------------------------------ AccessLoggedInvertedIndex
\* invertedindex.py, lines 209-251: an index wrapped around an
\* InMemoryInvertedIndex. Its iterators share the list _accesses of the
\* wrapper; iterators is the sequence of the iterators handed out so far.

\* How many iterators the clients obtain.
MaxIterators == 2

\* The contents of the documents behind the wrapped index.
LoggedContents ==
  {<<"a", "b", " ", "a", " ", "b">>, <<"A", " ", "b">>, <<"b">>}

LoggedCorpora == SeqUpTo(LoggedContents, MaxDocs)

\* The terms postings are asked for.
LoggedTerms == {<<"a">>, <<"b">>, <<"a", "b">>}

\* What a step of the wrapper leaves alone.
loggedRest == <<vars, parked, scans, error, mergeVars, suffixVars>>

\* Lines 231-233 around the constructor of the wrapped index (lines 85-91).
InitLogged ==
  /\ corpus \in LoggedCorpora
  /\ docIdx = 0
  /\ dictionary = <<>>
  /\ posting_lists = <<>>
  /\ asked = NoLookup
  /\ ipc = "build"
  /\ LoggedIdle
  /\ ScanIdle
  /\ MergeIdle
  /\ SuffixIdle

\* Line 172: the wrapped index returns an iterator for a term whose
\* identifier is true in a condition, and the list [] otherwise.
ReturnsIterator(term) == TermIdTruthy(GetTermId(dictionary, term))

\* Lines 241-242 and 221-224: a new iterator over the wrapped index's
\* postings of the term, sharing the wrapper's list of accesses.
LoggedGetPostingsIterator ==
  /\ ipc = "ready"
  /\ Len(iterators) < MaxIterators
  /\ \E term \in LoggedTerms :
       iterators' = Append(iterators,
                           [term |-> term,
                            wrapped |-> GetPostingsIterator(term),
                            iterator |-> ReturnsIterator(term)])
  /\ thrown' = "none"
  /\ UNCHANGED <<accesses, received, indexVars, loggedRest>>

\* LoggedNext putting the new entry at the front of the list of accesses.
LoggedNextPrepending ==
  /\ ipc = "ready"
  /\ \E i \in DOMAIN iterators :
       LET it == iterators[i]
       IN IF ~it.iterator
          THEN /\ thrown' = "TypeError"
               /\ UNCHANGED <<accesses, iterators, received>>
          ELSE IF it.wrapped = <<>>
          THEN /\ thrown' = "StopIteration"
               /\ UNCHANGED <<accesses, iterators, received>>
          ELSE LET posting == Head(it.wrapped)
               IN /\ iterators' =
                       [iterators EXCEPT ![i].wrapped = Tail(it.wrapped)]
                  /\ accesses' =
                       <<<<it.term, posting.document_id>>>> \o accesses
                  /\ received' =
                       Append(received, <<it.term, posting.document_id>>)
                  /\ thrown' = "none"
  /\ UNCHANGED <<indexVars, loggedRest>>

\* Lines 226-229: one pull on one of the iterators. next on the list []
\* raises TypeError and next on a used up iterator raises StopIteration,
\* both before line 228; otherwise the posting is logged and returned.
\* received is the sequence of the postings returned to the clients.
LoggedNext ==
  /\ ipc = "ready"
  /\ \E i \in DOMAIN iterators :
       LET it == iterators[i]
       IN IF ~it.iterator
          THEN /\ thrown' = "TypeError"
               /\ UNCHANGED <<accesses, iterators, received>>
          ELSE IF it.wrapped = <<>>
          THEN /\ thrown' = "StopIteration"
               /\ UNCHANGED <<accesses, iterators, received>>
          ELSE LET posting == Head(it.wrapped)
               IN /\ iterators' =
                       [iterators EXCEPT ![i].wrapped = Tail(it.wrapped)]
                  /\ accesses' =
                       Append(accesses, <<it.term, posting.document_id>>)
                  /\ received' =
                       Append(received, <<it.term, posting.document_id>>)
                  /\ thrown' = "none"
  /\ UNCHANGED <<indexVars, loggedRest>>

NextLogged ==
  IndexDocument \/ BuildDone \/ LoggedGetPostingsIterator \/ LoggedNext

SpecLogged == InitLogged /\ [][NextLogged]_allvars

\* Lines 247-251.
GetHistory == accesses

\* How many postings of its list an iterator has delivered.
Delivered(it) == Len(GetPostingsIterator(it.term)) - Len(it.wrapped)

RECURSIVE SumDelivered(_)
SumDelivered(its) ==
  IF its = <<>> THEN 0 ELSE Delivered(Head(its)) + SumDelivered(Tail(its))

\* C29: the history is exactly the sequence of (term, document_id) pairs of
\* the postings pulled from the iterators, one entry for each pulled
\* posting and in the order of the pulls across all iterators; a pull that
\* raised instead of returning a posting has added nothing.
C29_History ==
  /\ GetHistory = received
  /\ Len(GetHistory) = SumDelivered(iterators)
  /\ \A k \in DOMAIN GetHistory :
       \E p \in PostingsOf(GetPostingsIterator(GetHistory[k][1])) :
         p.document_id = GetHistory[k][2]

\* Two iterators over different terms pulled in turn, and then a pull on a
\* used up iterator.
C29_Witness ==
  /\ Len(accesses) >= 3
  /\ accesses[1][1] # accesses[2][1]
  /\ accesses[3][1] = accesses[1][1]
  /\ thrown = "StopIteration"

====
